---- MODULE Spec2Model ----
(***************************************************************************)
(* Behavioural-biometrics core of ghost-key: the keystroke analyzer hook   *)
(* (src/unnamed/part_000) and the voice feature extractor / similarity     *)
(* scorer (src/unnamed/part_001).                                          *)
(*                                                                         *)
(* Numbers.  Timestamps are whole milliseconds.  Quantities the code       *)
(* obtains by division are exact rationals [num, den].  Square roots are   *)
(* rounded down to the representable grid.                                 *)
(***************************************************************************)
EXTENDS Integers, Sequences, FiniteSets, TLC

VARIABLES
    keystrokeData,   \* useState<KeystrokeEvent[]>: the session buffer
    now,             \* performance.now(), in ms
    data,            \* the argument of the last extractFeatures call
    extracted,       \* what that call returned (NoResult before any call)
    features1,       \* first profile given to calculateRobustSimilarityScore
    features2,       \* second profile given to calculateRobustSimilarityScore
    similarity,      \* the RobustSimilarityResult returned (NoResult before)
    score,           \* the number calculateSimilarityScore returned (NoResult before)
    frames,          \* the VoiceFeatures[] given to aggregateFeatures
    aggregated,      \* what aggregateFeatures did: threw, or returned a profile
    blob,            \* the Blob given to quickProcessVoiceAudio
    quickPc,         \* where that call is: "idle", "decoding" (awaiting), "done"
    decodeAttempts,  \* number of blobToAudioBuffer calls it has made
    quickResult,     \* how its promise settled (NoResult while pending)
    audio,           \* the buffer, frame size and hop size given to
                     \* extractFeaturesFromAudioBufferFast, and the frames at
                     \* which Meyda.extract throws
    rawFeatures,     \* the VoiceFeatures[] it returned (NoResult before)
    sinceReset,      \* history: the events captured since the last resetCapture
    requestBody,     \* the url and JSON body of the fetch the last handler
                     \* issued (NoResult if it issued none)
    pending,         \* the trainModel / authenticate calls awaiting the service
    settled          \* how the promises of the finished calls settled, in order

remoteVars == <<sinceReset, requestBody, pending, settled>>

keyVars == <<keystrokeData, now, data, extracted, remoteVars>>

scoreVars == <<features1, features2, similarity, score>>

aggVars == <<frames, aggregated>>

quickVars == <<blob, quickPc, decodeAttempts, quickResult>>

frameVars == <<audio, rawFeatures>>

NoResult == [none |-> TRUE]

----------------------------------------------------------------------------
(* Bounds of the keystroke inputs *)

MaxEvents == 3     \* longest arbitrary event sequence
MaxPresses == 12   \* most presses of a regularly typed sequence

Keys == {"a", "b", "Backspace"}
Types == {"keydown", "keyup"}
Deltas == {0, 50}          \* time between two captured events, ms
HoldMs == 80               \* hold time of a regularly typed key, ms
GapMs == 150               \* press-to-press time of a regularly typed key, ms

----------------------------------------------------------------------------
(* Exact rationals *)

R(n, d) == [num |-> n, den |-> d]

RInt(n) == R(n, 1)

RECURSIVE Gcd(_, _)
Gcd(a, b) == IF b = 0 THEN a ELSE Gcd(b, a % b)

Abs(x) == IF x < 0 THEN -x ELSE x

\* lowest terms, positive denominator
RNorm(r) ==
    LET g == Gcd(Abs(r.num), Abs(r.den))
        s == IF r.den < 0 THEN -1 ELSE 1
    IN  IF r.num = 0 THEN R(0, 1) ELSE R(s * (r.num \div g), s * (r.den \div g))

RDiv(a, b) == RNorm(R(a.num * b.den, a.den * b.num))

RMul(a, b) == RNorm(R(a.num * b.num, a.den * b.den))

RAdd(a, b) == RNorm(R(a.num * b.den + b.num * a.den, a.den * b.den))

RSub(a, b) == RNorm(R(a.num * b.den - b.num * a.den, a.den * b.den))

RLess(a, b) == a.num * b.den < b.num * a.den

RECURSIVE ISqrtIn(_, _, _)
ISqrtIn(lo, hi, x) ==
    IF lo >= hi THEN lo
    ELSE LET mid == (lo + hi + 1) \div 2
         IN  IF mid * mid <= x THEN ISqrtIn(mid, hi, x) ELSE ISqrtIn(lo, mid - 1, x)

\* floor of the square root of a natural number below 2^31
ISqrt(x) == ISqrtIn(0, 46340, x)

\* Math.sqrt of a non-negative rational, numerator rounded down
RSqrt(r) == RNorm(R(ISqrt(r.num * r.den), r.den))

RECURSIVE Sum(_)
Sum(s) == IF s = <<>> THEN 0 ELSE Head(s) + Sum(Tail(s))

MinOf(S) == CHOOSE x \in S : \A y \in S : x <= y

Max2(a, b) == IF a >= b THEN a ELSE b

Min2(a, b) == IF a <= b THEN a ELSE b

----------------------------------------------------------------------------
(* useKeystrokeAnalyzer: extractFeatures *)

KeystrokeEvent(k, ty, ts) == [key |-> k, type |-> ty, timestamp |-> ts]

keydowns(d) == SelectSeq(d, LAMBDA k : k.type = "keydown")

keyups(d) == SelectSeq(d, LAMBDA k : k.type = "keyup")

\* keydowns.map((k) => [k.key, k.timestamp])
matchedKeys(d) ==
    LET kd == keydowns(d) IN [i \in 1..Len(kd) |-> <<kd[i].key, kd[i].timestamp>>]

\* (variant) a release at the very instant of the press also matches
FindUpSameInstant(ups, key, downTs) ==
    LET I == {i \in 1..Len(ups) : ups[i].key = key /\ ups[i].timestamp >= downTs}
    IN  IF I = {} THEN 0 ELSE MinOf(I)

\* keyups.find((u) => u.key === key && u.timestamp > downTs): index, 0 if none
FindUp(ups, key, downTs) ==
    LET I == {i \in 1..Len(ups) : ups[i].key = key /\ ups[i].timestamp > downTs}
    IN  IF I = {} THEN 0 ELSE MinOf(I)

RECURSIVE HoldFrom(_, _, _)
HoldFrom(mk, ups, i) ==
    IF i > Len(mk) THEN <<>>
    ELSE LET u == FindUp(ups, mk[i][1], mk[i][2])
         IN  (IF u # 0 THEN <<ups[u].timestamp - mk[i][2]>> ELSE <<>>)
                 \o HoldFrom(mk, ups, i + 1)

holdTimes(d) == HoldFrom(matchedKeys(d), keyups(d), 1)

ddTimes(d) ==
    LET mk == matchedKeys(d)
    IN  [i \in 1..(Len(mk) - 1) |-> mk[i + 1][2] - mk[i][2]]

\* (variant) presses without a release contribute no up-down time
udTimesNoFallback(d) ==
    LET mk == matchedKeys(d)
        ups == keyups(d)
        I == {i \in 1..(Len(mk) - 1) : FindUp(ups, mk[i][1], mk[i][2]) # 0}
    IN  [j \in 1..Cardinality(I) |->
            LET i == CHOOSE i \in I : Cardinality({k \in I : k <= i}) = j
            IN  mk[i + 1][2] - ups[FindUp(ups, mk[i][1], mk[i][2])].timestamp]

\* the up-down time of press i: from its release, or from the press itself
\* when no release is found
UdAt(mk, ups, i) ==
    LET u == FindUp(ups, mk[i][1], mk[i][2])
    IN  IF u # 0 THEN mk[i + 1][2] - ups[u].timestamp
        ELSE mk[i + 1][2] - mk[i][2]

udTimes(d) ==
    LET mk == matchedKeys(d)
        ups == keyups(d)
    IN  [i \in 1..(Len(mk) - 1) |-> UdAt(mk, ups, i)]

\* (variant) the elapsed time taken from the down-down times alone
totalTimeDownDown(d) ==
    LET m == Sum(ddTimes(d))
    IN  IF m = 0 THEN R(1, 1000) ELSE RInt(m)

\* (variant) the elapsed time without the || 0.001 fallback
totalTimeUnguarded(d) ==
    RInt(Max2(Sum(holdTimes(d)), Max2(Sum(ddTimes(d)), Sum(udTimes(d)))))

\* Math.max(sum of holds, sum of dd, sum of ud) || 0.001, in ms
totalTime(d) ==
    LET m == Max2(Sum(holdTimes(d)), Max2(Sum(ddTimes(d)), Sum(udTimes(d))))
    IN  IF m = 0 THEN R(1, 1000) ELSE RInt(m)

\* matchedKeys.length / (totalTime / 1000), keys per second
typingSpeed(d) == RDiv(RInt(Len(matchedKeys(d))), RDiv(totalTime(d), RInt(1000)))

flightTime(d) ==
    LET ud == udTimes(d)
    IN  IF Len(ud) > 0 THEN RDiv(RInt(Sum(ud)), RInt(Len(ud))) ELSE RInt(0)

errorRate(d) == Len(SelectSeq(d, LAMBDA k : k.key = "Backspace"))

RECURSIVE SumSqDev(_, _)
SumSqDev(s, mean) ==
    IF s = <<>> THEN RInt(0)
    ELSE LET dev == RSub(RInt(Head(s)), mean)
         IN  RAdd(RMul(dev, dev), SumSqDev(Tail(s), mean))

pressPressure(d) ==
    LET h == holdTimes(d)
        meanHoldTime == IF Len(h) > 0 THEN RDiv(RInt(Sum(h)), RInt(Len(h))) ELSE RInt(0)
    IN  IF Len(h) > 0 THEN RSqrt(RDiv(SumSqDev(h, meanHoldTime), RInt(Len(h))))
        ELSE RInt(0)

PASSWORD_LENGTH == 11

\* s.slice(0, n)
Slice(s, n) == SubSeq(s, 1, Min2(Len(s), n))

Ints(s) == [i \in 1..Len(s) |-> RInt(s[i])]

\* while (featureVector.length < target) featureVector.push(0)
PadTo(fv, target) ==
    fv \o [i \in 1..(target - Len(fv)) |-> RInt(0)]

featureVector(d) ==
    PadTo(Ints(Slice(holdTimes(d), PASSWORD_LENGTH))
              \o Ints(Slice(ddTimes(d), PASSWORD_LENGTH - 1))
              \o Ints(Slice(udTimes(d), PASSWORD_LENGTH - 1))
              \o <<typingSpeed(d), flightTime(d), RInt(errorRate(d)), pressPressure(d)>>,
          PASSWORD_LENGTH * 3 + 1)

extractFeatures(d) ==
    [holdTimes |-> holdTimes(d),
     ddTimes |-> ddTimes(d),
     udTimes |-> udTimes(d),
     typingSpeed |-> typingSpeed(d),
     flightTime |-> flightTime(d),
     errorRate |-> errorRate(d),
     pressPressure |-> pressPressure(d),
     features |-> featureVector(d)]

----------------------------------------------------------------------------
(* Voice profiles and the similarity scorer (src/unnamed/part_001)         *)
(*                                                                         *)
(* Profile fields are fixed-point numbers with two decimal places          *)
(* (1.00 = Unit).  A similarity of 1.0 is SimOne, chosen so that every     *)
(* scaled difference of the scorer is a whole number; the weighted sums    *)
(* carry the weights' two further decimal places (1.0 = WeightedOne) and   *)
(* the confidence carries the exact variance (1.0 = ConfOne).              *)

Unit == 10 * 10

SimOne == 60 * Unit

WeightedOne == 100 * SimOne

ConfOne == 25 * SimOne * SimOne

\* a JavaScript number that may be NaN
Num(x) == [nan |-> FALSE, v |-> x]

NaN == [nan |-> TRUE, v |-> 0]

\* Math.log on the values the profiles of the model take, rounded to the grid
LnTable ==
    {<<100, 0>>, <<150, 41>>, <<200, 69>>, <<300, 110>>, <<739, 200>>,
     <<1100, 240>>, <<2000, 300>>, <<9000, 450>>, <<15000, 501>>}

Ln(x) == (CHOOSE p \in LnTable : p[1] = x)[2]

\* an optional field is <<>> (absent) or <<value>>
Truthy(opt) == opt # <<>> /\ opt[1] # 0

\* (variant) const normalized = features: one object under two names
sameObject(features) ==
    [features |-> features, normalized |-> features, aliased |-> TRUE]

\* const normalized = { ...features }: a new object with the fields of
\* features; the pair is the argument and the copy as they now stand
spreadCopy(features) ==
    [features |-> features, normalized |-> features, aliased |-> FALSE]

\* normalized.x = value: a write through the name normalized
assign(o, x, value) ==
    IF o.aliased
    THEN [o EXCEPT !.normalized[x] = value, !.features[x] = value]
    ELSE [o EXCEPT !.normalized[x] = value]

\* the body of normalizePitchFeatures: the argument and the object returned
pitchNormalization(f) ==
    LET o == spreadCopy(f)
    IN  IF Truthy(o.features.pitchMean) /\ o.features.pitchMean[1] > 0
        THEN assign(o, "pitchMean", <<Ln(o.features.pitchMean[1])>>)
        ELSE o

normalizePitchFeatures(f) == pitchNormalization(f).normalized

\* the body of normalizeTempoFeatures
tempoNormalization(f) ==
    LET o == spreadCopy(f)
        o1 == IF Truthy(o.features.speakingRate) /\ o.features.speakingRate[1] > 0
              THEN assign(o, "speakingRate", <<Ln(o.features.speakingRate[1])>>)
              ELSE o
    IN  IF o1.features.zcrMean > 0
        THEN assign(o1, "zcrMean", Ln(o1.features.zcrMean + Unit))
        ELSE o1

normalizeTempoFeatures(f) == tempoNormalization(f).normalized

\* the body of normalizeSpectralFeatures
spectralNormalization(f) ==
    LET o == spreadCopy(f)
        o1 == IF o.features.energyMean > 0
              THEN assign(o, "energyMean", Ln(o.features.energyMean + Unit))
              ELSE o
        o2 == IF o1.features.rmsMean > 0
              THEN assign(o1, "rmsMean", Ln(o1.features.rmsMean + Unit))
              ELSE o1
    IN  IF o2.features.spectralCentroidMean > 0
        THEN assign(o2, "spectralCentroidMean", Ln(o2.features.spectralCentroidMean))
        ELSE o2

normalizeSpectralFeatures(f) == spectralNormalization(f).normalized

\* a profile object as the calls of normalizePitchFeatures,
\* normalizeTempoFeatures and normalizeSpectralFeatures on it leave it
afterNormalization(f) ==
    spectralNormalization(tempoNormalization(pitchNormalization(f).features).features).features

RECURSIVE SumSqDiff(_, _, _)
SumSqDiff(a, b, n) ==
    IF n = 0 THEN 0
    ELSE (a[n] - b[n]) * (a[n] - b[n]) + SumSqDiff(a, b, n - 1)

\* Math.sqrt(sum of squared differences / mfccLength); 0/0 is NaN
mfccDistance(f1, f2) ==
    LET mfccLength == Min2(Len(f1.mfccMean), Len(f2.mfccMean))
    IN  IF mfccLength = 0 THEN NaN
        ELSE Num(ISqrt(SumSqDiff(f1.mfccMean, f2.mfccMean, mfccLength) \div mfccLength))

\* (weight * diff) / scale as a share of SimOne; weight and scale in tenths
Scaled(weight, diff, scale) == (weight * diff * SimOne) \div (scale * Unit)

\* Math.max(0, 1 - x)
OneMinusFloored(x) == IF x.nan THEN NaN ELSE Num(Max2(0, SimOne - x.v))

\* (variant) 1 - x without the floor at 0
OneMinus(x) == IF x.nan THEN NaN ELSE Num(SimOne - x.v)

\* sum of weight * similarity, weights in hundredths
RECURSIVE WeightedSum(_)
WeightedSum(terms) ==
    IF terms = <<>> THEN Num(0)
    ELSE LET rest == WeightedSum(Tail(terms))
             t == Head(terms)
         IN  IF t[1].nan \/ rest.nan THEN NaN ELSE Num(t[1].v * t[2] + rest.v)

RECURSIVE SumV(_)
SumV(sims) == IF sims = <<>> THEN 0 ELSE Head(sims).v + SumV(Tail(sims))

\* sum over the similarities of (n * sim - total)^2 = n^2 * (sim - mean)^2
RECURSIVE SumSqDevN(_, _, _)
SumSqDevN(sims, n, total) ==
    IF sims = <<>> THEN 0
    ELSE (n * Head(sims).v - total) * (n * Head(sims).v - total)
             + SumSqDevN(Tail(sims), n, total)

\* (variant) the sample variance, divided by n - 1
confidenceScoreSampleVariance(featureConsistency) ==
    LET n == Len(featureConsistency)
        total == SumV(featureConsistency)
        variance == SumSqDevN(featureConsistency, n, total) \div (n - 1)
    IN  IF \E i \in 1..n : featureConsistency[i].nan THEN NaN
        ELSE Num(Max2(0, ConfOne - variance))

\* Math.max(0, 1 - variance) of the category similarities, in ConfOne
confidenceScore(featureConsistency) ==
    LET n == Len(featureConsistency)
        total == SumV(featureConsistency)
        variance == SumSqDevN(featureConsistency, n, total) \div n
    IN  IF \E i \in 1..n : featureConsistency[i].nan THEN NaN
        ELSE Num(Max2(0, ConfOne - variance))

\* (variant) the temporal similarity from the zero-crossing rate alone
tempoSimilarityZcrOnly(zcrDiff, energyDiff) ==
    OneMinusFloored(Num(Scaled(6, zcrDiff, 10)))

\* Math.max(0, 1 - ((0.6 * zcrDiff) / 1.0 + (0.4 * energyDiff) / 2.0))
tempoSimilarity(zcrDiff, energyDiff) ==
    OneMinusFloored(Num(Scaled(6, zcrDiff, 10) + Scaled(4, energyDiff, 20)))

\* (variant) the last weight of the overall score mistyped as 0.04
overallWeightsShort(m, s, v, t, p) ==
    WeightedSum(<<<<m, 50>>, <<s, 25>>, <<v, 15>>, <<t, 5>>, <<p, 4>>>>)

overallWeights(m, s, v, t, p) ==
    WeightedSum(<<<<m, 50>>, <<s, 25>>, <<v, 15>>, <<t, 5>>, <<p, 5>>>>)

\* (variant) the spectral similarity without its floor at 0
spectralSimilarityUnfloored(centroidDiff, flatnessDiff, rolloffDiff) ==
    OneMinus(Num(Scaled(4, centroidDiff, 20) + Scaled(3, flatnessDiff, 5)
                     + Scaled(3, rolloffDiff, 20)))

spectralSimilarity(centroidDiff, flatnessDiff, rolloffDiff) ==
    OneMinusFloored(Num(Scaled(4, centroidDiff, 20) + Scaled(3, flatnessDiff, 5)
                            + Scaled(3, rolloffDiff, 20)))

calculateRobustSimilarityScore(f1, f2) ==
    LET pitchNorm1 == normalizePitchFeatures(f1)
        pitchNorm2 == normalizePitchFeatures(f2)
        tempoNorm1 == normalizeTempoFeatures(pitchNormalization(f1).features)
        tempoNorm2 == normalizeTempoFeatures(pitchNormalization(f2).features)
        spectralNorm1 ==
            normalizeSpectralFeatures(
                tempoNormalization(pitchNormalization(f1).features).features)
        spectralNorm2 ==
            normalizeSpectralFeatures(
                tempoNormalization(pitchNormalization(f2).features).features)
        \* features1 and features2 as the normalisation calls leave them
        input1 == afterNormalization(f1)
        input2 == afterNormalization(f2)
        distance == mfccDistance(input1, input2)
        spectralCentroidDiff ==
            Abs(spectralNorm1.spectralCentroidMean - spectralNorm2.spectralCentroidMean)
        spectralFlatnessDiff ==
            Abs(input1.spectralFlatnessMean - input2.spectralFlatnessMean)
        spectralRolloffDiff ==
            Abs(input1.spectralRolloffMean - input2.spectralRolloffMean)
        zcrDiff == Abs(tempoNorm1.zcrMean - tempoNorm2.zcrMean)
        energyDiff == Abs(spectralNorm1.energyMean - spectralNorm2.energyMean)
        pitchDiff ==
            IF Truthy(pitchNorm1.pitchMean) /\ Truthy(pitchNorm2.pitchMean)
            THEN <<Abs(pitchNorm1.pitchMean[1] - pitchNorm2.pitchMean[1])>>
            ELSE <<>>
        perceptualSpreadDiff ==
            Abs(input1.perceptualSpreadMean - input2.perceptualSpreadMean)
        perceptualSharpnessDiff ==
            Abs(input1.perceptualSharpnessMean - input2.perceptualSharpnessMean)
        mfccSimilarity ==
            OneMinusFloored(IF distance.nan THEN NaN ELSE Num(Scaled(10, distance.v, 50)))
        spectralSim ==
            spectralSimilarity(spectralCentroidDiff, spectralFlatnessDiff, spectralRolloffDiff)
        voiceQualitySimilarity ==
            OneMinusFloored(Num(Scaled(5, perceptualSpreadDiff, 5)
                                    + Scaled(5, perceptualSharpnessDiff, 5)))
        tempoSim == tempoSimilarity(zcrDiff, energyDiff)
        pitchSimilarity ==
            IF pitchDiff # <<>> THEN OneMinusFloored(Num(Scaled(10, pitchDiff[1], 15)))
            ELSE Num((7 * SimOne) \div 10)
    IN  [overallSimilarity |->
             overallWeights(mfccSimilarity, spectralSim, voiceQualitySimilarity,
                            tempoSim, pitchSimilarity),
         pitchNormalizedSimilarity |->
             WeightedSum(<<<<mfccSimilarity, 70>>, <<spectralSim, 20>>,
                           <<pitchSimilarity, 10>>>>),
         tempoNormalizedSimilarity |->
             WeightedSum(<<<<mfccSimilarity, 60>>, <<spectralSim, 30>>,
                           <<tempoSim, 10>>>>),
         spectralSimilarity |-> spectralSim,
         voiceQualitySimilarity |-> voiceQualitySimilarity,
         confidenceScore |->
             confidenceScore(<<mfccSimilarity, spectralSim, voiceQualitySimilarity,
                               tempoSim, pitchSimilarity>>),
         detailedMetrics |->
             [mfccDistance |-> distance,
              spectralCentroidDiff |-> spectralCentroidDiff,
              zcrDiff |-> zcrDiff,
              pitchDiff |-> pitchDiff,
              energyDiff |-> energyDiff]]

\* legacy entry point: the overall similarity of the robust comparison
calculateSimilarityScore(f1, f2) == calculateRobustSimilarityScore(f1, f2).overallSimilarity

----------------------------------------------------------------------------
(* The profiles the scorer is applied to *)

MaxMfccLen == 2    \* longest mean-MFCC vector

MfccValues == {0, 500}

MfccVectors == UNION {[1..n -> MfccValues] : n \in 0..MaxMfccLen}

PitchChoices == {<<>>, <<0>>, <<100>>, <<2000>>, <<9000>>, <<15000>>}

Profiles ==
    [mfccMean : MfccVectors,
     spectralCentroidMean : {0, 100, 739},
     spectralFlatnessMean : {0},
     spectralRolloffMean : {0, 400},
     perceptualSpreadMean : {0, 60},
     perceptualSharpnessMean : {0, 60},
     zcrMean : {0, 1000},
     rmsMean : {50},
     energyMean : {0, 100, 200},
     pitchMean : PitchChoices,
     speakingRate : {<<>>}]

Profile(mfcc, centroid, flatness, rolloff, spread, sharpness, zcr, energy, pitch) ==
    [mfccMean |-> mfcc,
     spectralCentroidMean |-> centroid,
     spectralFlatnessMean |-> flatness,
     spectralRolloffMean |-> rolloff,
     perceptualSpreadMean |-> spread,
     perceptualSharpnessMean |-> sharpness,
     zcrMean |-> zcr,
     rmsMean |-> 50,
     energyMean |-> energy,
     pitchMean |-> pitch,
     speakingRate |-> <<>>]

SilentProfile == Profile(<<0, 0>>, 0, 0, 0, 0, 0, 0, 0, <<>>)

\* stored reference profiles: silent, loud, one-coefficient, middling
References ==
    {SilentProfile,
     Profile(<<500, 500>>, 739, 50, 400, 60, 60, 1000, 200, <<15000>>),
     Profile(<<500>>, 100, 50, 0, 0, 60, 0, 200, <<2000>>),
     Profile(<<0, 500>>, 100, 0, 0, 60, 0, 100, 100, <<9000>>)}

----------------------------------------------------------------------------
(* aggregateFeatures (src/unnamed/part_001): per-frame descriptors to one  *)
(* profile of exact means and population variances                         *)

VoiceFeatures(mfcc, sc, sf, sr, sx, ps, ph, sk, zcr, rms, energy) ==
    [mfcc |-> mfcc,
     spectralCentroid |-> sc,
     spectralFlatness |-> sf,
     spectralRolloff |-> sr,
     spectralFlux |-> sx,
     perceptualSpread |-> ps,
     perceptualSharpness |-> ph,
     spectralKurtosis |-> sk,
     zcr |-> zcr,
     rms |-> rms,
     energy |-> energy]

\* xSum += feature.x over the frames
RECURSIVE FieldSum(_, _)
FieldSum(fs, x) == IF fs = <<>> THEN 0 ELSE Head(fs)[x] + FieldSum(Tail(fs), x)

\* xSumSq += feature.x * feature.x over the frames
RECURSIVE FieldSumSq(_, _)
FieldSumSq(fs, x) ==
    IF fs = <<>> THEN 0 ELSE Head(fs)[x] * Head(fs)[x] + FieldSumSq(Tail(fs), x)

\* mfccSums[i] += feature.mfcc[i] over the frames
RECURSIVE MfccSum(_, _)
MfccSum(fs, i) == IF fs = <<>> THEN 0 ELSE Head(fs).mfcc[i] + MfccSum(Tail(fs), i)

\* mfccSquareSums[i] += feature.mfcc[i] * feature.mfcc[i] over the frames
RECURSIVE MfccSumSq(_, _)
MfccSumSq(fs, i) ==
    IF fs = <<>> THEN 0
    ELSE Head(fs).mfcc[i] * Head(fs).mfcc[i] + MfccSumSq(Tail(fs), i)

\* sum / count
MeanOf(sum, count) == RDiv(RInt(sum), RInt(count))

\* (variant) the mean square, the square of the mean not subtracted
MeanSquare(sum, sumSq, count) == RDiv(RInt(sumSq), RInt(count))

\* sumSq / count - mean * mean
VarianceOf(sum, sumSq, count) ==
    RSub(RDiv(RInt(sumSq), RInt(count)), RMul(MeanOf(sum, count), MeanOf(sum, count)))

aggregateFeatures(fs) ==
    IF Len(fs) = 0 THEN [threw |-> TRUE, error |-> "No features to aggregate"]
    ELSE
    LET count == Len(fs)
        M(x) == MeanOf(FieldSum(fs, x), count)
        V(x) == VarianceOf(FieldSum(fs, x), FieldSumSq(fs, x), count)
    IN  [threw |-> FALSE,
         value |->
           [mfccMean |-> [i \in 1..Len(fs[1].mfcc) |-> MeanOf(MfccSum(fs, i), count)],
            mfccVariance |->
                [i \in 1..Len(fs[1].mfcc) |->
                    VarianceOf(MfccSum(fs, i), MfccSumSq(fs, i), count)],
            spectralCentroidMean |-> M("spectralCentroid"),
            spectralCentroidVariance |-> V("spectralCentroid"),
            spectralFlatnessMean |-> M("spectralFlatness"),
            spectralFlatnessVariance |-> V("spectralFlatness"),
            spectralRolloffMean |-> M("spectralRolloff"),
            spectralRolloffVariance |-> V("spectralRolloff"),
            spectralFluxMean |-> M("spectralFlux"),
            spectralFluxVariance |-> V("spectralFlux"),
            perceptualSpreadMean |-> M("perceptualSpread"),
            perceptualSpreadVariance |-> V("perceptualSpread"),
            perceptualSharpnessMean |-> M("perceptualSharpness"),
            perceptualSharpnessVariance |-> V("perceptualSharpness"),
            spectralKurtosisMean |-> M("spectralKurtosis"),
            spectralKurtosisVariance |-> V("spectralKurtosis"),
            zcrMean |-> M("zcr"),
            zcrVariance |-> V("zcr"),
            rmsMean |-> M("rms"),
            rmsVariance |-> V("rms"),
            energyMean |-> M("energy"),
            energyVariance |-> V("energy")]]

----------------------------------------------------------------------------
(* The frame sequences aggregateFeatures is applied to.  Every frame of a   *)
(* sequence carries the same number of MFCC coefficients, as the frames of *)
(* one extraction do.                                                      *)

MaxFrames == 3     \* longest frame sequence
MaxSeed == 2       \* frames of a longer sequence are SeedFrame(0..MaxSeed)

FrameValues == {0, 3}

\* every combination of descriptor values, for sequences of one frame
SingleFrames ==
    [mfcc : [1..MaxMfccLen -> {-2, 3}],
     spectralCentroid : FrameValues,
     spectralFlatness : FrameValues,
     spectralRolloff : FrameValues,
     spectralFlux : FrameValues,
     perceptualSpread : FrameValues,
     perceptualSharpness : FrameValues,
     spectralKurtosis : FrameValues,
     zcr : FrameValues,
     rms : FrameValues,
     energy : FrameValues]

\* a frame whose descriptors all differ, and differ from frame to frame
SeedFrame(k) ==
    VoiceFeatures([i \in 1..MaxMfccLen |-> i * k - 2], k + 1, 2 * k + 2, 3 * k, 4 * k + 1,
                  5 * k + 3, 6 * k + 2, 7 * k, 8 * k + 5, 9 * k + 1, 10 * k + 4)

FrameSequences ==
    {<<f>> : f \in SingleFrames}
        \cup UNION {{[i \in 1..n |-> SeedFrame(q[i])] : q \in [1..n -> 0..MaxSeed]} :
                        n \in 0..MaxFrames}

----------------------------------------------------------------------------
(* quickProcessVoiceAudio (src/unnamed/part_001)                           *)
(*                                                                         *)
(* A blob is null, or has a size in bytes and, if the decoder accepts it,  *)
(* the AudioBuffer it decodes to.  Durations are in ms.  Samples are in    *)
(* units of 0.00001; channel 0 holds leadLen samples of amplitude leadAmp  *)
(* followed by samples of amplitude restAmp.                               *)

MinBlobSize == 1000

MaxBlobSize == 50 * 1024 * 1024

MinDurationMs == 500

MinSamples == 512

RmsWindow == 2048

RmsFloor == 10

NullBlob == [null |-> TRUE]

Blob(size, decoded) == [null |-> FALSE, size |-> size, audio |-> decoded]

AudioBuffer(duration, length, leadLen, leadAmp, restAmp) ==
    [duration |-> duration, length |-> length,
     leadLen |-> leadLen, leadAmp |-> leadAmp, restAmp |-> restAmp]

Resolved(v) == [rejected |-> FALSE, value |-> v]

Rejected == [rejected |-> TRUE]

\* (variant) the size checks without the upper limit
sizeChecksNoUpper(b) ==
    IF b.null THEN "throw"
    ELSE IF b.size < MinBlobSize THEN "false"
    ELSE "decode"

\* lines 634-647: "throw" (blob.size of null), "false", or go on to decode
sizeChecks(b) ==
    IF b.null THEN "throw"
    ELSE IF b.size < MinBlobSize THEN "false"
    ELSE IF b.size > MaxBlobSize THEN "false"
    ELSE "decode"

\* sum of audioData[i] * audioData[i] over the first sampleSize samples
sumOfSquares(a, sampleSize) ==
    Min2(a.leadLen, sampleSize) * a.leadAmp * a.leadAmp
        + Max2(0, sampleSize - a.leadLen) * a.restAmp * a.restAmp

\* Math.sqrt(rms / sampleSize) > 0.0001, compared through the squares
isValid(a) ==
    LET sampleSize == Min2(RmsWindow, a.length)
    IN  sumOfSquares(a, sampleSize) > RmsFloor * RmsFloor * sampleSize

\* lines 651-683: the checks on the decoded buffer
audioChecks(a) ==
    IF a.duration < MinDurationMs THEN FALSE
    ELSE IF a.length < MinSamples THEN FALSE
    ELSE isValid(a)

\* (variant) a blob that cannot be decoded is refused
audioErrorRefused(b) == Resolved(FALSE)

\* catch (audioError): assume the audio is still valid
audioErrorCaught(b) == Resolved(TRUE)

\* catch (error): be permissive
errorCaught(b) == Resolved(TRUE)

----------------------------------------------------------------------------
(* The blobs quickProcessVoiceAudio is applied to *)

BlobSizes ==
    {500, 999, 1000, 1023, 1024, MaxBlobSize, MaxBlobSize + 1, 60 * 1024 * 1024}

AudioBuffers ==
    {AudioBuffer(d, n, l, a, r) :
        d \in {400, 500, 1000, 3000}, n \in {0, 511, 512, 2048, 4096},
        l \in {0, 256, 4096}, a \in {0, 10, 11, 500}, r \in {0, 500}}

Blobs ==
    {NullBlob} \cup {Blob(sz, au) : sz \in BlobSizes,
                                     au \in {<<>>} \cup {<<b>> : b \in AudioBuffers}}

----------------------------------------------------------------------------
(* extractFeaturesFromAudioBufferFast (src/unnamed/part_001)               *)
(*                                                                         *)
(* A returned frame records the loop index that pushed it, the slice of   *)
(* samples it was computed from, and whether it is the default feature set *)
(* pushed when Meyda.extract threw (with the Math.random() draw it holds). *)

FrameCap == 50

\* (variant) the frame count without the cap
maxFramesUncapped(n, frameSize, hopSize) == (n - frameSize) \div hopSize

\* Math.min(50, Math.floor((audioData.length - frameSize) / hopSize))
maxFrames(n, frameSize, hopSize) == Min2(FrameCap, (n - frameSize) \div hopSize)

\* audioData.slice(startIdx, startIdx + frameSize), through Meyda.extract
extractedFrame(i, n, frameSize, hopSize) ==
    [index |-> i,
     startIdx |-> i * hopSize,
     sampleCount |-> Max2(0, Min2(n, i * hopSize + frameSize) - i * hopSize),
     placeholder |-> FALSE,
     random |-> 0]

\* the default feature set of the catch block
placeholderFrame(i, hopSize, rnd) ==
    [index |-> i,
     startIdx |-> i * hopSize,
     sampleCount |-> 0,
     placeholder |-> TRUE,
     random |-> rnd]

\* (variant) a frame whose extraction throws is dropped
pushedFrameOrNothing(i, a, rnd) ==
    IF i \in a.throwsAt THEN <<>>
    ELSE <<extractedFrame(i, a.length, a.frameSize, a.hopSize)>>

\* the body of the loop: what iteration i pushes
pushedFrame(i, a, rnd) ==
    IF i \in a.throwsAt THEN <<placeholderFrame(i, a.hopSize, rnd[i])>>
    ELSE <<extractedFrame(i, a.length, a.frameSize, a.hopSize)>>

RECURSIVE FramesFrom(_, _, _, _)
FramesFrom(i, limit, a, rnd) ==
    IF i >= limit THEN <<>>
    ELSE pushedFrame(i, a, rnd) \o FramesFrom(i + 1, limit, a, rnd)

extractFeaturesFromAudioBufferFast(a, rnd) ==
    FramesFrom(0, maxFrames(a.length, a.frameSize, a.hopSize), a, rnd)

----------------------------------------------------------------------------
(* The buffers extractFeaturesFromAudioBufferFast is applied to *)

MaxFailures == 2   \* most frames of one call at which Meyda.extract throws

AudioLengths == {0, 300, 512, 767, 768, 1024, 13311, 13312, 13568, 20000}

FrameParams == {<<512, 256>>, <<1024, 512>>, <<256, 256>>}

FailurePoints == {0, 1, 24, 48, 49}

RandomDraws == {0, 1}

RECURSIVE FailureSets(_)
FailureSets(k) ==
    IF k = 0 THEN {{}}
    ELSE LET smaller == FailureSets(k - 1)
         IN  smaller \cup {f \cup {i} : f \in smaller, i \in FailurePoints}

AudioInputs ==
    {[length |-> n, frameSize |-> fp[1], hopSize |-> fp[2], throwsAt |-> f] :
        n \in AudioLengths, fp \in FrameParams, f \in FailureSets(MaxFailures)}

IdleAudio == [length |-> 0, frameSize |-> 512, hopSize |-> 256, throwsAt |-> {}]

----------------------------------------------------------------------------
(* The event sequences extractFeatures is applied to *)

\* events of the given keys and types, each Deltas after the one before
RECURSIVE Stamp(_, _, _)
Stamp(steps, i, t) ==
    IF i > Len(steps) THEN <<>>
    ELSE <<KeystrokeEvent(steps[i][1], steps[i][2], t + steps[i][3])>>
             \o Stamp(steps, i + 1, t + steps[i][3])

SmallInputs ==
    UNION {{Stamp(s, 1, 0) : s \in [1..n -> Keys \X Types \X Deltas]} : n \in 0..MaxEvents}

\* n presses of alternating keys GapMs apart, the first r of them released
\* HoldMs after the press
RECURSIVE Typed(_, _, _)
Typed(i, n, r) ==
    IF i > n THEN <<>>
    ELSE LET k == IF i % 2 = 1 THEN "a" ELSE "b"
             t == (i - 1) * GapMs
         IN  <<KeystrokeEvent(k, "keydown", t)>>
                 \o (IF i <= r THEN <<KeystrokeEvent(k, "keyup", t + HoldMs)>> ELSE <<>>)
                 \o Typed(i + 1, n, r)

TypedInputs == {Typed(1, n, r) : n \in 0..MaxPresses, r \in 0..MaxPresses}

\* [press 'a'@0, release 'a'@100, press 'b'@150, release 'b'@230]
ScenarioEvents ==
    <<KeystrokeEvent("a", "keydown", 0), KeystrokeEvent("a", "keyup", 100),
      KeystrokeEvent("b", "keydown", 150), KeystrokeEvent("b", "keyup", 230)>>

Inputs == SmallInputs \cup TypedInputs \cup {ScenarioEvents}

----------------------------------------------------------------------------
(* Specification of extractFeatures as a pure function of its argument *)

vars == <<keyVars, scoreVars, aggVars, quickVars, frameVars>>

RemoteIdle ==
    /\ sinceReset = <<>>
    /\ requestBody = NoResult
    /\ pending = <<>>
    /\ settled = <<>>

KeysIdle ==
    /\ keystrokeData = <<>>
    /\ now = 0
    /\ data = <<>>
    /\ extracted = NoResult
    /\ RemoteIdle

ScoreIdle ==
    /\ features1 = SilentProfile
    /\ features2 = SilentProfile
    /\ similarity = NoResult
    /\ score = NoResult

AggIdle ==
    /\ frames = <<>>
    /\ aggregated = NoResult

QuickIdle ==
    /\ blob = NullBlob
    /\ quickPc = "idle"
    /\ decodeAttempts = 0
    /\ quickResult = NoResult

FramesIdle ==
    /\ audio = IdleAudio
    /\ rawFeatures = NoResult

InitExtract ==
    /\ keystrokeData = <<>>
    /\ now = 0
    /\ data \in Inputs
    /\ extracted = NoResult
    /\ RemoteIdle
    /\ ScoreIdle
    /\ AggIdle
    /\ QuickIdle
    /\ FramesIdle

ExtractFeatures ==
    /\ extracted = NoResult
    /\ extracted' = extractFeatures(data)
    /\ UNCHANGED <<keystrokeData, now, data, remoteVars,
                   scoreVars, aggVars, quickVars, frameVars>>

NextExtract == ExtractFeatures

SpecExtract == InitExtract /\ [][NextExtract]_vars

----------------------------------------------------------------------------
(* Specification of one capture session of the useKeystrokeAnalyzer hook.  *)
(* data and extracted hold the argument and the result of an               *)
(* extractFeatures call, and requestBody the request a handler sent, until *)
(* the next handler runs.  The remote model service is not part of the     *)
(* hook: its replies follow its interface, {success} for enrollment and    *)
(* {success, authenticated, mse, deviations} for authentication.           *)

MaxCalls == 2      \* remote calls started in one session

\* the session clock stops here
ClockLimit == MaxEvents * 50

\* the keys typed in a session
SessionKeys == {"a"}

\* time between two events of a session, ms
SessionDeltas == {50}

\* AUTOENCODER_THRESHOLD: 0.05, in thousandths
AUTOENCODER_THRESHOLD == 50

Usernames == {"alice"}

Passwords == {"secret"}

SampleCounts == {1}

\* null is <<>>, any other value v is <<v>>
JsonNull == <<>>

\* (variant) the new event put in front of the buffer
prependKeystroke(prev, keystroke) == <<keystroke>> \o prev

\* setKeystrokeData((prev) => [...prev, keystroke])
appendKeystroke(prev, keystroke) == prev \o <<keystroke>>

\* the JSON body trainModel posts to /api/train-model
trainBody(username, features, sampleCount, privacyMode, buffer) ==
    [username |-> username,
     features |-> features.features,
     holdTimes |-> features.holdTimes,
     ddTimes |-> features.ddTimes,
     udTimes |-> features.udTimes,
     additionalFeatures |->
         [typingSpeed |-> features.typingSpeed,
          flightTime |-> features.flightTime,
          errorRate |-> features.errorRate,
          pressPressure |-> features.pressPressure],
     sampleCount |-> sampleCount,
     privacyMode |-> privacyMode,
     rawData |-> IF privacyMode THEN JsonNull ELSE <<buffer>>]

\* the JSON body authenticate posts to /api/authenticate
authBody(username, features, password) ==
    [username |-> username,
     features |-> features.features,
     holdTimes |-> features.holdTimes,
     ddTimes |-> features.ddTimes,
     udTimes |-> features.udTimes,
     typingSpeed |-> features.typingSpeed,
     flightTime |-> features.flightTime,
     errorRate |-> features.errorRate,
     pressPressure |-> features.pressPressure,
     password |-> password]

\* what the service answers to an enrollment
TrainReplies == {[success |-> TRUE], [success |-> FALSE]}

\* what the service answers when the typing matches the stored model: the
\* reconstruction error is within the threshold
MatchReplies ==
    {[success |-> TRUE, authenticated |-> TRUE, mse |-> AUTOENCODER_THRESHOLD,
      deviations |-> <<>>]}

\* what it answers when the typing does not match: the reconstruction error
\* exceeds the threshold
MismatchReplies ==
    {[success |-> FALSE, authenticated |-> FALSE, mse |-> AUTOENCODER_THRESHOLD + 1,
      deviations |-> <<3>>]}

AuthReplies == MatchReplies \cup MismatchReplies

\* (variant) the error of the remote call thrown on to the caller
rethrown(op) == Rejected

\* the catch blocks: trainModel returns false, authenticate a fixed
\* negative result
caught(op) ==
    IF op = "trainModel" THEN Resolved(FALSE)
    ELSE Resolved([success |-> FALSE, authenticated |-> FALSE,
                   mse |-> 0, deviations |-> <<>>])

\* the return after await response.json(): result.success, or result itself
returned(op, result) ==
    IF op = "trainModel" THEN Resolved(result.success) ELSE Resolved(result)

\* a call in flight: awaiting fetch, then awaiting response.json()
Call(op, pc) == [op |-> op, pc |-> pc]

\* a promise that settled: the call, what the service did, and the outcome
Outcome(op, cause, result) == [op |-> op, cause |-> cause, result |-> result]

\* the sequence without its i-th element
Without(s, i) == SubSeq(s, 1, i - 1) \o SubSeq(s, i + 1, Len(s))

Init ==
    /\ KeysIdle
    /\ ScoreIdle
    /\ AggIdle
    /\ QuickIdle
    /\ FramesIdle

\* onKeyDown / onKeyUp: append one event stamped performance.now()
captureKeystrokes(key, type) ==
    /\ Len(keystrokeData) < MaxEvents
    /\ \E d \in SessionDeltas :
           /\ now + d <= ClockLimit
           /\ now' = now + d
           /\ keystrokeData' =
                  appendKeystroke(keystrokeData, KeystrokeEvent(key, type, now + d))
           /\ sinceReset' = Append(sinceReset, KeystrokeEvent(key, type, now + d))
    /\ data' = <<>>
    /\ extracted' = NoResult
    /\ requestBody' = NoResult
    /\ UNCHANGED <<pending, settled, scoreVars, aggVars, quickVars, frameVars>>

CaptureKeystrokes == \E key \in SessionKeys, type \in Types : captureKeystrokes(key, type)

\* setKeystrokeData([])
resetCapture ==
    /\ keystrokeData' = <<>>
    /\ sinceReset' = <<>>
    /\ data' = <<>>
    /\ extracted' = NoResult
    /\ requestBody' = NoResult
    /\ UNCHANGED <<now, pending, settled, scoreVars, aggVars, quickVars, frameVars>>

\* extractFeatures(keystrokeData), as the forms call it on submit
ExtractFeaturesOfSession ==
    /\ data' = keystrokeData
    /\ extracted' = extractFeatures(keystrokeData)
    /\ requestBody' = NoResult
    /\ UNCHANGED <<keystrokeData, now, sinceReset, pending, settled,
                   scoreVars, aggVars, quickVars, frameVars>>

\* trainModel(username, features, sampleCount, privacyMode) up to its first
\* await: the body is built and the fetch issued
trainModel(username, sampleCount, privacyMode) ==
    /\ extracted # NoResult
    /\ Len(pending) + Len(settled) < MaxCalls
    /\ requestBody' =
           [url |-> "/api/train-model",
            body |-> trainBody(username, extracted, sampleCount, privacyMode,
                               keystrokeData)]
    /\ pending' = Append(pending, Call("trainModel", "fetch"))
    /\ UNCHANGED <<keystrokeData, now, data, extracted, sinceReset, settled,
                   scoreVars, aggVars, quickVars, frameVars>>

TrainModel ==
    \E username \in Usernames, sampleCount \in SampleCounts, privacyMode \in BOOLEAN :
        trainModel(username, sampleCount, privacyMode)

\* authenticate(username, features, password) up to its first await
authenticate(username, password) ==
    /\ extracted # NoResult
    /\ Len(pending) + Len(settled) < MaxCalls
    /\ requestBody' =
           [url |-> "/api/authenticate",
            body |-> authBody(username, extracted, password)]
    /\ pending' = Append(pending, Call("authenticate", "fetch"))
    /\ UNCHANGED <<keystrokeData, now, data, extracted, sinceReset, settled,
                   scoreVars, aggVars, quickVars, frameVars>>

Authenticate ==
    \E username \in Usernames, password \in Passwords : authenticate(username, password)

\* fetch rejects (the network fails): the catch block runs
FetchRejected ==
    \E i \in DOMAIN pending :
        /\ pending[i].pc = "fetch"
        /\ pending' = Without(pending, i)
        /\ settled' = Append(settled, Outcome(pending[i].op, "network", caught(pending[i].op)))
        /\ UNCHANGED <<keystrokeData, now, data, extracted, sinceReset, requestBody,
                       scoreVars, aggVars, quickVars, frameVars>>

\* fetch resolves with a response: the call goes on to await response.json()
FetchResolved ==
    \E i \in DOMAIN pending :
        /\ pending[i].pc = "fetch"
        /\ pending' = [pending EXCEPT ![i].pc = "json"]
        /\ UNCHANGED <<keystrokeData, now, data, extracted, sinceReset, requestBody,
                       settled, scoreVars, aggVars, quickVars, frameVars>>

\* response.json() rejects (the body cannot be parsed): the catch block runs
JsonRejected ==
    \E i \in DOMAIN pending :
        /\ pending[i].pc = "json"
        /\ pending' = Without(pending, i)
        /\ settled' = Append(settled, Outcome(pending[i].op, "parse", caught(pending[i].op)))
        /\ UNCHANGED <<keystrokeData, now, data, extracted, sinceReset, requestBody,
                       scoreVars, aggVars, quickVars, frameVars>>

\* response.json() resolves with the reply of the service
JsonResolved ==
    \E i \in DOMAIN pending :
        /\ pending[i].pc = "json"
        /\ \E result \in IF pending[i].op = "trainModel" THEN TrainReplies ELSE AuthReplies :
               settled' =
                   Append(settled,
                          Outcome(pending[i].op,
                                  IF result \in MismatchReplies THEN "mismatch" ELSE "reply",
                                  returned(pending[i].op, result)))
        /\ pending' = Without(pending, i)
        /\ UNCHANGED <<keystrokeData, now, data, extracted, sinceReset, requestBody,
                       scoreVars, aggVars, quickVars, frameVars>>

Next ==
    \/ CaptureKeystrokes
    \/ resetCapture
    \/ ExtractFeaturesOfSession
    \/ TrainModel
    \/ Authenticate
    \/ FetchRejected
    \/ FetchResolved
    \/ JsonRejected
    \/ JsonResolved

Spec == Init /\ [][Next]_vars

----------------------------------------------------------------------------
(* Properties of the capture session and its remote calls, checked under   *)
(* Spec                                                                    *)

\* C12: a call whose network request failed or whose response body could not
\* be parsed resolves, trainModel to false and authenticate to a result with
\* success = false and authenticated = false; no call's promise rejects.
C12_TransportFaultsCaught ==
    \A i \in DOMAIN settled :
        /\ ~settled[i].result.rejected
        /\ settled[i].cause \in {"network", "parse"} =>
               IF settled[i].op = "trainModel"
               THEN settled[i].result.value = FALSE
               ELSE /\ settled[i].result.value.success = FALSE
                    /\ settled[i].result.value.authenticated = FALSE

\* an enrollment that failed on the network and an authentication whose
\* response could not be parsed
C12_Witness ==
    /\ \E i \in DOMAIN settled :
           settled[i].op = "trainModel" /\ settled[i].cause = "network"
    /\ \E i \in DOMAIN settled :
           settled[i].op = "authenticate" /\ settled[i].cause = "parse"

\* the body carries no timing samples under the given keys
NoTimingArrays(body) ==
    \A k \in {"holdTimes", "ddTimes", "udTimes"} :
        k \notin DOMAIN body \/ body[k] = <<>>

\* C13 (as claimed): an enrollment body sent with the privacy flag set
\* carries no raw timing arrays and no raw keystroke events; one sent without
\* the flag carries both.
C13_PrivacyPayload ==
    (requestBody # NoResult /\ requestBody.url = "/api/train-model") =>
        IF requestBody.body.privacyMode
        THEN /\ NoTimingArrays(requestBody.body)
             /\ requestBody.body.rawData = JsonNull
        ELSE /\ requestBody.body.holdTimes = extracted.holdTimes
             /\ requestBody.body.ddTimes = extracted.ddTimes
             /\ requestBody.body.udTimes = extracted.udTimes
             /\ requestBody.body.rawData = <<keystrokeData>>

\* C17: the session buffer is the sequence of events captured since the last
\* resetCapture, in capture order, whatever extractions and remote calls
\* (failed, pending or finished) have been interleaved.
C17_BufferIsCapturedSinceReset == keystrokeData = sinceReset

\* two events captured after a reset (the first event of the session is
\* stamped 50), while one remote call has failed on the network and another
\* is still pending
C17_Witness ==
    /\ Len(keystrokeData) = 2
    /\ keystrokeData[1].timestamp = 100
    /\ \E i \in DOMAIN settled : settled[i].cause = "network"
    /\ pending # <<>>

\* C18 (as claimed): an authentication that failed on a transport fault and
\* one the service refused as a mismatch return the same value.
C18_FailureIndistinguishable ==
    \A i, j \in DOMAIN settled :
        (/\ settled[i].op = "authenticate"
         /\ settled[j].op = "authenticate"
         /\ settled[i].cause \in {"network", "parse"}
         /\ settled[j].cause = "mismatch")
            => settled[i].result = settled[j].result

----------------------------------------------------------------------------
(* Properties of extractFeatures, checked under SpecExtract *)

Returned == extracted # NoResult

\* number of press events of the argument
PressCount == Cardinality({i \in DOMAIN data : data[i].type = "keydown"})

AllZero(fv) == \A i \in 1..Len(fv) : fv[i].num = 0

\* r is x/100 to within one hundredth
About(r, x) == RLess(R(x - 1, 100), r) /\ RLess(r, R(x + 1, 100))

\* C2 (as claimed): the encoded vector has the same length for every event
\* sequence (the length it has for the empty sequence), and for the empty
\* sequence every entry is 0.
C2_EncodedLengthConstant ==
    Returned =>
        /\ Len(extracted.features) = Len(extractFeatures(<<>>).features)
        /\ (data = <<>> => AllZero(extracted.features))

\* C3 (as claimed): the scenario [a down@0, a up@100, b down@150, b up@230]
\* gives holdTimes [100,80], ddTimes [150], udTimes [50] and a typing speed
\* of about 13.33 keys per second.
C3_ScenarioAsClaimed ==
    (Returned /\ data = ScenarioEvents) =>
        /\ extracted.holdTimes = <<100, 80>>
        /\ extracted.ddTimes = <<150>>
        /\ extracted.udTimes = <<50>>
        /\ About(extracted.typingSpeed, 1333)

\* the elapsed time the returned arrays give: max of the three sums, or the
\* 0.001 ms floor when that is 0
ElapsedOf(x) ==
    LET m == Max2(Sum(x.holdTimes), Max2(Sum(x.ddTimes), Sum(x.udTimes)))
    IN  IF m = 0 THEN R(1, 1000) ELSE RInt(m)

\* C3 (amended): the scenario gives holdTimes [100,80], ddTimes [150],
\* udTimes [50] and a typing speed of about 11.11 keys per second (2 presses
\* over max(180, 150, 50) ms); for every input the typing speed is
\* pressCount / (max(sum hold, sum dd, sum ud, epsilon) / 1000).
C3_Scenario ==
    Returned =>
        /\ RMul(extracted.typingSpeed, ElapsedOf(extracted)) = RInt(PressCount * 1000)
        /\ data = ScenarioEvents =>
               /\ extracted.holdTimes = <<100, 80>>
               /\ extracted.ddTimes = <<150>>
               /\ extracted.udTimes = <<50>>
               /\ About(extracted.typingSpeed, 1111)

C3_Witness == Returned /\ data = ScenarioEvents

\* C10: with N >= 1 presses, holdTimes has at most N entries and ddTimes and
\* udTimes have exactly N - 1, whether or not the presses are released.
C10_TimingLengths ==
    (Returned /\ PressCount >= 1) =>
        /\ Len(extracted.holdTimes) <= PressCount
        /\ Len(extracted.ddTimes) = PressCount - 1
        /\ Len(extracted.udTimes) = PressCount - 1

\* three presses, one of them never released
C10_Witness ==
    /\ Returned
    /\ PressCount = 3
    /\ Len(extracted.holdTimes) = 2
    /\ Len(extracted.udTimes) = 2

\* timestamps never decrease along the sequence
Monotone(d) == \A i \in 1..(Len(d) - 1) : d[i].timestamp <= d[i + 1].timestamp

\* a rational that is a number (not a division by zero) and not below 0
FiniteNonNegative(r) == r.den > 0 /\ r.num >= 0

\* C11: for every event sequence with non-decreasing timestamps and at least
\* one press, the typing speed returned is finite and non-negative, also when
\* the three timing sums are all 0 or the flight-time sum is negative.
C11_TypingSpeedFinite ==
    (Returned /\ Monotone(data) /\ PressCount >= 1) =>
        FiniteNonNegative(extracted.typingSpeed)

\* two presses at the same instant, neither released: all three sums are 0
\* and the 0.001 ms fallback is the divisor
C11_Witness ==
    /\ Returned
    /\ Monotone(data)
    /\ PressCount = 2
    /\ Sum(extracted.holdTimes) = 0
    /\ Sum(extracted.ddTimes) = 0
    /\ Sum(extracted.udTimes) = 0
    /\ extracted.typingSpeed = RInt(2000000)

\* positions in the argument of its presses, in order
PressAt(i) ==
    CHOOSE p \in DOMAIN data :
        /\ data[p].type = "keydown"
        /\ Cardinality({q \in 1..p : data[q].type = "keydown"}) = i

\* positions in the argument of the releases of the key pressed at p that
\* carry a strictly later timestamp
LaterReleases(p) ==
    {q \in DOMAIN data : /\ data[q].type = "keyup"
                         /\ data[q].key = data[p].key
                         /\ data[q].timestamp > data[p].timestamp}

IsMatched(i) == LaterReleases(PressAt(i)) # {}

\* the first such release
ReleaseOf(i) == MinOf(LaterReleases(PressAt(i)))

\* the i-th press that has a release, counted among the matched presses
MatchedPress(j) ==
    CHOOSE i \in 1..PressCount :
        /\ IsMatched(i)
        /\ Cardinality({k \in 1..i : IsMatched(k)}) = j

\* C15: each press is matched to the first release of the same key with a
\* strictly later timestamp.  The hold times are release - press of the
\* matched presses, in order, and nothing else (an unmatched press adds no
\* sample); the flight time at index i is nextPress - release for a matched
\* press and nextPress - press, the down-down time at i, for an unmatched one.
C15_MatchingAndFallback ==
    Returned =>
        /\ Len(extracted.holdTimes) = Cardinality({i \in 1..PressCount : IsMatched(i)})
        /\ \A j \in 1..Len(extracted.holdTimes) :
               extracted.holdTimes[j] =
                   data[ReleaseOf(MatchedPress(j))].timestamp
                       - data[PressAt(MatchedPress(j))].timestamp
        /\ \A i \in 1..(PressCount - 1) :
               IF IsMatched(i)
               THEN extracted.udTimes[i] =
                        data[PressAt(i + 1)].timestamp - data[ReleaseOf(i)].timestamp
               ELSE /\ extracted.udTimes[i] =
                           data[PressAt(i + 1)].timestamp - data[PressAt(i)].timestamp
                    /\ extracted.udTimes[i] = extracted.ddTimes[i]

\* a press whose only release carries the timestamp of the press itself, so
\* that it counts as unmatched, followed 50 ms later by another press
C15_Witness ==
    /\ Returned
    /\ PressCount = 2
    /\ \E q \in DOMAIN data :
           /\ data[q].type = "keyup"
           /\ data[q].key = data[PressAt(1)].key
           /\ data[q].timestamp = data[PressAt(1)].timestamp
    /\ extracted.holdTimes = <<>>
    /\ extracted.udTimes = <<50>>
    /\ extracted.ddTimes = <<50>>

----------------------------------------------------------------------------
(* Specification of calculateRobustSimilarityScore on a pair of profiles *)

\* the profile with twice the energy mean, everything else equal
Louder(f) == [f EXCEPT !.energyMean = 2 * f.energyMean]

InitScore ==
    /\ KeysIdle
    /\ features1 \in Profiles
    /\ features2 \in {features1} \cup References
                      \cup (IF Louder(features1) \in Profiles THEN {Louder(features1)} ELSE {})
    /\ similarity = NoResult
    /\ score = NoResult
    /\ AggIdle
    /\ QuickIdle
    /\ FramesIdle

\* a call of calculateRobustSimilarityScore(features1, features2); the
\* profile objects are shared with the caller, so what the call does to them
\* is what the next call reads
CalculateRobustSimilarityScore ==
    /\ similarity = NoResult
    /\ similarity' = calculateRobustSimilarityScore(features1, features2)
    /\ features1' = afterNormalization(features1)
    /\ features2' = afterNormalization(features2)
    /\ UNCHANGED <<score, keyVars, aggVars, quickVars, frameVars>>

\* a call of calculateSimilarityScore(features1, features2)
CalculateSimilarityScore ==
    /\ score = NoResult
    /\ score' = calculateSimilarityScore(features1, features2)
    /\ features1' = afterNormalization(features1)
    /\ features2' = afterNormalization(features2)
    /\ UNCHANGED <<similarity, keyVars, aggVars, quickVars, frameVars>>

NextScore == CalculateRobustSimilarityScore \/ CalculateSimilarityScore

SpecScore == InitScore /\ [][NextScore]_vars

----------------------------------------------------------------------------
(* Properties of calculateRobustSimilarityScore, checked under SpecScore *)

Scored == similarity # NoResult

IsExactly(x, one) == ~x.nan /\ x.v = one

InUnitInterval(x, one) == ~x.nan /\ 0 <= x.v /\ x.v <= one

\* the pitch mean survives normalisation as a usable (truthy) number: it is
\* present, not 0, and not 1.00, whose logarithm is 0
UsablePitch(f) == f.pitchMean # <<>> /\ f.pitchMean[1] # 0 /\ f.pitchMean[1] # Unit

\* C1 (as claimed): comparing any profile with itself gives overall
\* similarity exactly 1.0 and confidence exactly 1.0.
C1_SelfSimilarityAsClaimed ==
    (Scored /\ features1 = features2) =>
        /\ IsExactly(similarity.overallSimilarity, WeightedOne)
        /\ IsExactly(similarity.confidenceScore, ConfOne)

\* C1 (amended): comparing a profile with itself gives overall similarity
\* exactly 1.0 and confidence exactly 1.0 when the profile has a non-empty
\* mean-MFCC vector and a usable pitch mean; with a non-empty mean-MFCC vector
\* and no usable pitch mean the pitch category takes its default 0.7 and the
\* result is overall similarity 0.985 and confidence 0.9856.
C1_SelfSimilarity ==
    (Scored /\ features1 = features2 /\ features1.mfccMean # <<>>) =>
        IF UsablePitch(features1)
        THEN /\ IsExactly(similarity.overallSimilarity, WeightedOne)
             /\ IsExactly(similarity.confidenceScore, ConfOne)
        ELSE /\ IsExactly(similarity.overallSimilarity, (985 * WeightedOne) \div 1000)
             /\ IsExactly(similarity.confidenceScore, (9856 * (ConfOne \div 10000)))

C1_Witness ==
    /\ Scored
    /\ features1 = features2
    /\ features1.mfccMean = <<500, 0>>
    /\ features1.pitchMean = <<9000>>
    /\ features1.energyMean = 200

\* C4: for two profiles with non-empty mean-MFCC vectors, every similarity
\* and confidence field of the result lies in [0, 1].
C4_FieldsInUnitInterval ==
    (Scored /\ features1.mfccMean # <<>> /\ features2.mfccMean # <<>>) =>
        /\ InUnitInterval(similarity.overallSimilarity, WeightedOne)
        /\ InUnitInterval(similarity.pitchNormalizedSimilarity, WeightedOne)
        /\ InUnitInterval(similarity.tempoNormalizedSimilarity, WeightedOne)
        /\ InUnitInterval(similarity.spectralSimilarity, SimOne)
        /\ InUnitInterval(similarity.voiceQualitySimilarity, SimOne)
        /\ InUnitInterval(similarity.confidenceScore, ConfOne)

\* a pair whose spectral and voice-quality differences both exceed their
\* scales, so that the floors at 0 are what keeps the fields in range
C4_Witness ==
    /\ Scored
    /\ features1.mfccMean # <<>>
    /\ features2.mfccMean # <<>>
    /\ similarity.spectralSimilarity.v = 0
    /\ similarity.voiceQualitySimilarity.v = 0
    /\ similarity.detailedMetrics.spectralCentroidDiff = 200
    /\ similarity.overallSimilarity.v > 0

----------------------------------------------------------------------------
(* The category similarities as a caller can recover them from a result *)

\* the MFCC similarity that belongs to the returned MFCC distance
MfccSimilarityOf(res) ==
    Max2(0, SimOne - Scaled(10, res.detailedMetrics.mfccDistance.v, 50))

\* tempoNormalizedSimilarity = 0.6 mfcc + 0.3 spectral + 0.1 tempo, solved
\* for the temporal similarity
TempoSimilarityOf(res) ==
    (res.tempoNormalizedSimilarity.v - 60 * MfccSimilarityOf(res)
         - 30 * res.spectralSimilarity.v) \div 10

\* pitchNormalizedSimilarity = 0.7 mfcc + 0.2 spectral + 0.1 pitch, solved
\* for the pitch similarity
PitchSimilarityOf(res) ==
    (res.pitchNormalizedSimilarity.v - 70 * MfccSimilarityOf(res)
         - 20 * res.spectralSimilarity.v) \div 10

BothMfcc == features1.mfccMean # <<>> /\ features2.mfccMean # <<>>

\* features2 is features1 with the energy mean doubled
LoudnessPair == features1.energyMean > 0 /\ features2 = Louder(features1)

\* C14 (as claimed): for a pair identical except for a doubled energy mean
\* the temporal similarity and the spectral similarity are both strictly
\* lower than for the identical pair, and the MFCC distance is 0.
C14_LoudnessAsClaimed ==
    (Scored /\ LoudnessPair /\ BothMfcc) =>
        LET same == calculateRobustSimilarityScore(features1, features1)
        IN  /\ TempoSimilarityOf(similarity) < TempoSimilarityOf(same)
            /\ similarity.spectralSimilarity.v < same.spectralSimilarity.v
            /\ similarity.detailedMetrics.mfccDistance = Num(0)

\* C14 (amended): for a pair with non-empty mean-MFCC vectors, identical
\* except for a doubled energy mean, the temporal similarity is strictly
\* lower than for the identical pair, the spectral similarity is the same as
\* for the identical pair (1.0), and the MFCC distance is 0 (MFCC similarity
\* 1.0).
C14_Loudness ==
    (Scored /\ LoudnessPair /\ BothMfcc) =>
        LET same == calculateRobustSimilarityScore(features1, features1)
        IN  /\ TempoSimilarityOf(similarity) < TempoSimilarityOf(same)
            /\ TempoSimilarityOf(same) = SimOne
            /\ similarity.spectralSimilarity = same.spectralSimilarity
            /\ similarity.spectralSimilarity = Num(SimOne)
            /\ similarity.detailedMetrics.mfccDistance = Num(0)
            /\ MfccSimilarityOf(similarity) = SimOne

\* energy means 1.00 and 2.00: log(2.00) and log(3.00) differ by 0.41
C14_Witness ==
    /\ Scored
    /\ LoudnessPair
    /\ BothMfcc
    /\ features1.energyMean = 100
    /\ similarity.detailedMetrics.energyDiff = 41
    /\ TempoSimilarityOf(similarity) < SimOne

\* C16: no comparison changes a field of either profile passed in, so the
\* profiles always equal what they were before the first comparison, and
\* comparing the same pair again (through either entry point) returns the
\* same overall similarity.
C16_InputsUntouched ==
    /\ [][features1' = features1 /\ features2' = features2]_vars
    /\ []((Scored /\ score # NoResult) => score = similarity.overallSimilarity)

\* both entry points have compared a pair whose pitch, zero-crossing rate,
\* energy and centroid all get log-transformed inside the comparison
C16_Witness ==
    /\ Scored
    /\ score # NoResult
    /\ features1.pitchMean = <<2000>>
    /\ features1.zcrMean = 1000
    /\ features1.energyMean = 200
    /\ features1.spectralCentroidMean = 739
    /\ features2 \in References
    /\ features2.pitchMean = <<15000>>

\* a profile without a pitch mean: the field absent, or 0
NoPitchMean(f) == f.pitchMean = <<>> \/ f.pitchMean[1] = 0

\* C19 (as claimed): the pitch similarity is the default 0.7 with a null
\* pitchDiff exactly when one of the profiles has no pitch mean; when both
\* have a positive pitch mean, pitchDiff is the absolute difference of the
\* logarithms and the pitch similarity is max(0, 1 - pitchDiff / 1.5).
C19_PitchDefaultIff ==
    (Scored /\ BothMfcc) =>
        /\ (/\ similarity.detailedMetrics.pitchDiff = <<>>
            /\ PitchSimilarityOf(similarity) = (7 * SimOne) \div 10)
               <=> (NoPitchMean(features1) \/ NoPitchMean(features2))
        /\ (~NoPitchMean(features1) /\ ~NoPitchMean(features2)) =>
               /\ similarity.detailedMetrics.pitchDiff =
                      <<Abs(Ln(features1.pitchMean[1]) - Ln(features2.pitchMean[1]))>>
               /\ PitchSimilarityOf(similarity) =
                      Max2(0, SimOne - Scaled(10, Abs(Ln(features1.pitchMean[1])
                                                         - Ln(features2.pitchMean[1])), 15))

\* C20: for two profiles with non-empty mean-MFCC vectors the confidence
\* score is never below 0.76.
C20_ConfidenceFloor ==
    (Scored /\ BothMfcc) =>
        /\ ~similarity.confidenceScore.nan
        /\ similarity.confidenceScore.v >= 76 * (ConfOne \div 100)

\* the categories disagree maximally: MFCC, spectral and voice-quality
\* similarity 0, temporal and pitch similarity 1, confidence exactly 0.76
C20_Witness ==
    /\ Scored
    /\ BothMfcc
    /\ MfccSimilarityOf(similarity) = 0
    /\ similarity.spectralSimilarity = Num(0)
    /\ similarity.voiceQualitySimilarity = Num(0)
    /\ TempoSimilarityOf(similarity) = SimOne
    /\ PitchSimilarityOf(similarity) = SimOne
    /\ similarity.confidenceScore = Num(76 * (ConfOne \div 100))

----------------------------------------------------------------------------
(* Specification of aggregateFeatures on a frame sequence *)

InitAggregate ==
    /\ KeysIdle
    /\ ScoreIdle
    /\ frames \in FrameSequences
    /\ aggregated = NoResult
    /\ QuickIdle
    /\ FramesIdle

AggregateFeatures ==
    /\ aggregated = NoResult
    /\ aggregated' = aggregateFeatures(frames)
    /\ UNCHANGED <<frames, keyVars, scoreVars, quickVars, frameVars>>

NextAggregate == AggregateFeatures

SpecAggregate == InitAggregate /\ [][NextAggregate]_vars

(* Properties of aggregateFeatures, checked under SpecAggregate *)

ScalarDescriptors ==
    {"spectralCentroid", "spectralFlatness", "spectralRolloff", "spectralFlux",
     "perceptualSpread", "perceptualSharpness", "spectralKurtosis", "zcr", "rms", "energy"}

\* the mean and the variance the profile p carries for the scalar descriptor x
MeanField(p, x) ==
    CASE x = "spectralCentroid" -> p.spectralCentroidMean
      [] x = "spectralFlatness" -> p.spectralFlatnessMean
      [] x = "spectralRolloff" -> p.spectralRolloffMean
      [] x = "spectralFlux" -> p.spectralFluxMean
      [] x = "perceptualSpread" -> p.perceptualSpreadMean
      [] x = "perceptualSharpness" -> p.perceptualSharpnessMean
      [] x = "spectralKurtosis" -> p.spectralKurtosisMean
      [] x = "zcr" -> p.zcrMean
      [] x = "rms" -> p.rmsMean
      [] x = "energy" -> p.energyMean

VarianceField(p, x) ==
    CASE x = "spectralCentroid" -> p.spectralCentroidVariance
      [] x = "spectralFlatness" -> p.spectralFlatnessVariance
      [] x = "spectralRolloff" -> p.spectralRolloffVariance
      [] x = "spectralFlux" -> p.spectralFluxVariance
      [] x = "perceptualSpread" -> p.perceptualSpreadVariance
      [] x = "perceptualSharpness" -> p.perceptualSharpnessVariance
      [] x = "spectralKurtosis" -> p.spectralKurtosisVariance
      [] x = "zcr" -> p.zcrVariance
      [] x = "rms" -> p.rmsVariance
      [] x = "energy" -> p.energyVariance

\* C5: aggregateFeatures of no frames throws and returns no profile; of
\* exactly one frame it returns a profile whose every variance is exactly 0
\* and whose every mean is that frame's value.
C5_EmptyThrowsSingleExact ==
    (aggregated # NoResult) =>
        /\ frames = <<>> => (aggregated.threw /\ DOMAIN aggregated = {"threw", "error"})
        /\ Len(frames) = 1 =>
               /\ ~aggregated.threw
               /\ \A x \in ScalarDescriptors :
                      /\ VarianceField(aggregated.value, x) = RInt(0)
                      /\ MeanField(aggregated.value, x) = RInt(frames[1][x])
               /\ Len(aggregated.value.mfccMean) = Len(frames[1].mfcc)
               /\ Len(aggregated.value.mfccVariance) = Len(frames[1].mfcc)
               /\ \A i \in 1..Len(frames[1].mfcc) :
                      /\ aggregated.value.mfccVariance[i] = RInt(0)
                      /\ aggregated.value.mfccMean[i] = RInt(frames[1].mfcc[i])

\* one frame with non-zero descriptors has been aggregated
C5_Witness ==
    /\ aggregated # NoResult
    /\ Len(frames) = 1
    /\ frames[1].energy = 3
    /\ frames[1].spectralCentroid = 3
    /\ frames[1].mfcc[1] = -2

----------------------------------------------------------------------------
(* Specification of quickProcessVoiceAudio: the call runs up to the await   *)
(* of blobToAudioBuffer, and goes on when the decode resolves or rejects   *)

InitQuick ==
    /\ KeysIdle
    /\ ScoreIdle
    /\ AggIdle
    /\ blob \in Blobs
    /\ quickPc = "idle"
    /\ decodeAttempts = 0
    /\ quickResult = NoResult
    /\ FramesIdle

\* lines 633-650: log, size checks, then the call of blobToAudioBuffer
QuickStart ==
    /\ quickPc = "idle"
    /\ LET o == sizeChecks(blob)
       IN  IF o = "decode"
           THEN /\ quickPc' = "decoding"
                /\ decodeAttempts' = decodeAttempts + 1
                /\ UNCHANGED quickResult
           ELSE /\ quickPc' = "done"
                /\ quickResult' = IF o = "throw" THEN errorCaught(blob)
                                  ELSE Resolved(FALSE)
                /\ UNCHANGED decodeAttempts
    /\ UNCHANGED <<blob, keyVars, scoreVars, aggVars, frameVars>>

\* lines 650-683: blobToAudioBuffer resolved with the decoded buffer
DecodeResolved ==
    /\ quickPc = "decoding"
    /\ blob.audio # <<>>
    /\ quickPc' = "done"
    /\ quickResult' = Resolved(audioChecks(blob.audio[1]))
    /\ UNCHANGED <<blob, decodeAttempts, keyVars, scoreVars, aggVars, frameVars>>

\* lines 684-688: blobToAudioBuffer rejected
DecodeRejected ==
    /\ quickPc = "decoding"
    /\ blob.audio = <<>>
    /\ quickPc' = "done"
    /\ quickResult' = audioErrorCaught(blob)
    /\ UNCHANGED <<blob, decodeAttempts, keyVars, scoreVars, aggVars, frameVars>>

NextQuick == QuickStart \/ DecodeResolved \/ DecodeRejected

SpecQuick == InitQuick /\ [][NextQuick]_vars

(* Properties of quickProcessVoiceAudio, checked under SpecQuick *)

SizeInRange(b) == b.size >= MinBlobSize /\ b.size <= MaxBlobSize

\* the samples of the leading window have a mean square above the floor
LeadingWindowLoud(a) ==
    LET w == IF a.length < RmsWindow THEN a.length ELSE RmsWindow
        inLead == IF a.leadLen < w THEN a.leadLen ELSE w
    IN  inLead * a.leadAmp * a.leadAmp + (w - inLead) * a.restAmp * a.restAmp
            > w * RmsFloor * RmsFloor

\* C6: a blob below the minimum size (1000 bytes) or above the maximum
\* (50 * 1024 * 1024 bytes) is refused with false, decodable or not, without
\* any decode attempt; a blob of in-range size that decodes to at least 1 s
\* and at least 512 samples, loud over the leading window, is accepted.
C6_SizeGateAndAccept ==
    ~blob.null =>
        /\ ~SizeInRange(blob) => decodeAttempts = 0
        /\ quickPc = "done" =>
               /\ ~SizeInRange(blob) => quickResult = Resolved(FALSE)
               /\ (/\ SizeInRange(blob)
                   /\ blob.audio # <<>>
                   /\ blob.audio[1].duration >= 1000
                   /\ blob.audio[1].length >= MinSamples
                   /\ LeadingWindowLoud(blob.audio[1])) => quickResult = Resolved(TRUE)

\* a 60 MB blob holding a perfectly good recording has been refused
C6_Witness ==
    /\ quickPc = "done"
    /\ ~blob.null
    /\ blob.size = 60 * 1024 * 1024
    /\ blob.audio = <<AudioBuffer(3000, 4096, 4096, 500, 500)>>
    /\ quickResult = Resolved(FALSE)

\* C7: when the size checks pass and the decode fails the call resolves to
\* true, and the promise never rejects.
C7_DecodeFailureAccepted ==
    /\ quickResult # NoResult => ~quickResult.rejected
    /\ (/\ quickPc = "done"
        /\ ~blob.null
        /\ SizeInRange(blob)
        /\ blob.audio = <<>>) => quickResult = Resolved(TRUE)

\* an undecodable blob of acceptable size went through a decode attempt
C7_Witness ==
    /\ quickPc = "done"
    /\ ~blob.null
    /\ blob.size = 1024
    /\ blob.audio = <<>>
    /\ decodeAttempts = 1
    /\ quickResult = Resolved(TRUE)

\* C21 (as claimed): called with an absent (null or undefined) blob the call
\* resolves to false, as it does for a blob below the minimum size.
C21_AbsentBlobRefused ==
    quickPc = "done" =>
        /\ blob.null => quickResult = Resolved(FALSE)
        /\ (~blob.null /\ blob.size < MinBlobSize) => quickResult = Resolved(FALSE)

----------------------------------------------------------------------------
(* Specification of extractFeaturesFromAudioBufferFast on a sample buffer *)

InitFrames ==
    /\ KeysIdle
    /\ ScoreIdle
    /\ AggIdle
    /\ QuickIdle
    /\ audio \in AudioInputs
    /\ rawFeatures = NoResult

\* one call; each default feature set holds its own Math.random() draws
ExtractFeaturesFromAudioBufferFast ==
    /\ rawFeatures = NoResult
    /\ \E rnd \in [audio.throwsAt -> RandomDraws] :
           rawFeatures' = [threw |-> FALSE,
                           value |-> extractFeaturesFromAudioBufferFast(audio, rnd)]
    /\ UNCHANGED <<audio, keyVars, scoreVars, aggVars, quickVars>>

NextFrames == ExtractFeaturesFromAudioBufferFast

SpecFrames == InitFrames /\ [][NextFrames]_vars

(* Properties of extractFeaturesFromAudioBufferFast, checked under SpecFrames *)

FramesReturned == rawFeatures # NoResult /\ ~rawFeatures.threw

\* floor((N - frameSize) / hopSize)
WholeHops(a) == (a.length - a.frameSize) \div a.hopSize

\* the frames are in order and frame i starts at sample i * hopSize
InOffsetOrder(fs, a) ==
    \A j \in 1..Len(fs) : fs[j].index = j - 1 /\ fs[j].startIdx = (j - 1) * a.hopSize

\* C8 (as claimed): exactly min(cap, floor((N - frameSize) / hopSize)) frames
\* are returned, in order of start offset, never more than the cap.
C8_FrameCountAsClaimed ==
    (rawFeatures # NoResult) =>
        /\ FramesReturned
        /\ Len(rawFeatures.value) = Min2(FrameCap, WholeHops(audio))
        /\ InOffsetOrder(rawFeatures.value, audio)
        /\ Len(rawFeatures.value) <= FrameCap

\* C8 (amended): exactly max(0, min(cap, floor((N - frameSize) / hopSize)))
\* frames are returned (none when the buffer is shorter than frameSize +
\* hopSize), in order of start offset with frame i starting at i * hopSize,
\* never more than the cap.
C8_FrameCount ==
    (rawFeatures # NoResult) =>
        /\ FramesReturned
        /\ Len(rawFeatures.value) = Max2(0, Min2(FrameCap, WholeHops(audio)))
        /\ InOffsetOrder(rawFeatures.value, audio)
        /\ Len(rawFeatures.value) <= FrameCap

\* a buffer of 20000 samples, 76 whole hops, has been cut to the cap
C8_Witness ==
    /\ FramesReturned
    /\ audio.length = 20000
    /\ audio.frameSize = 512
    /\ WholeHops(audio) = 76
    /\ Len(rawFeatures.value) = FrameCap

\* what the call returns when no extraction throws
Unfailing(a) == extractFeaturesFromAudioBufferFast([a EXCEPT !.throwsAt = {}], <<>>)

\* C9: whatever frames the descriptor computation throws at, the call
\* returns (nothing propagates) as many frames as without any failure, the
\* default feature set at exactly the failing indices and the frames at the
\* other indices as without failure.
C9_FailuresIsolated ==
    (rawFeatures # NoResult) =>
        /\ FramesReturned
        /\ Len(rawFeatures.value) = Len(Unfailing(audio))
        /\ \A j \in 1..Len(rawFeatures.value) :
               /\ rawFeatures.value[j].placeholder <=> (j - 1) \in audio.throwsAt
               /\ (j - 1) \notin audio.throwsAt =>
                      rawFeatures.value[j] = Unfailing(audio)[j]

\* the first and the last of 50 frames failed
C9_Witness ==
    /\ FramesReturned
    /\ audio.throwsAt = {0, 49}
    /\ Len(rawFeatures.value) = FrameCap
    /\ rawFeatures.value[1].placeholder
    /\ rawFeatures.value[50].placeholder
    /\ ~rawFeatures.value[2].placeholder

====
